---- MODULE Spec2Model ----
(***************************************************************************)
(* Checked, typed access to a dense matrix (src/manual/core/mat.rs).       *)
(*                                                                         *)
(* A matrix is a record                                                    *)
(*   typ   the runtime element type tag                                    *)
(*   size  the shape descriptor (mat_size), a sequence of extents          *)
(*   step  the stride of axis 0, counted in elements                       *)
(*   mem   the backing buffer, a function from element offsets to values   *)
(*   null  whether the data pointer is null                                *)
(* Addresses are element offsets from the data pointer.                    *)
(***************************************************************************)
EXTENDS Integers, Sequences, FiniteSets, TLC

VARIABLES mat, call, ret, shadow, iter

vars == <<mat, call, ret, shadow, iter>>

----------------------------------------------------------------------------
(* Bounds of the model *)

\* largest extent of an axis of the 2-D matrices of Spec
MaxExt == 3
\* largest extent of an axis of the 3-D matrices of Spec
MaxExt3 == 2
\* largest extent of an axis of the matrices of SpecRW (the writing spec)
MaxExtW == 2
\* most padding elements after a row (step - cols)
MaxPad == 1
\* longest sequence handed to from_exact_iter
MaxN == 3
\* largest slice length handed to the slice constructors
MaxLen == 6
\* largest coordinate / extent of a region of interest
MaxRoi == 2
\* pulls of an iterator after it is exhausted
MaxAfter == 2
\* largest extents of the matrices written and read through flat indices
MaxFlatRows == 2
MaxFlatCols == 3
\* how far the element counts of the rendered matrices go past MAX_DUMP_SIZE
MaxOver == 2
\* longest byte slice handed to from_bytes
MaxBytes == 9
\* most rows, and longest row, handed to from_slice_2d
MaxRowCount == 3
MaxRowLen == 2

(* Program constants *)

\* MAX_DUMP_SIZE of MatDataDumper
MAX_DUMP_SIZE == 1000

\* i32::MAX, the limit of i32::try_from in row_count_i32
I32_MAX == 2147483647
\* the value expected_len saturates at (u64::MAX in the source; products of
\* two i32 extents stay below it, as they do below this value in the model)
U64_SAT == 2147483647

\* element type tags (T::opencv_type()) and their byte sizes
Types == {"CV_8U", "CV_32F"}

\* values an element may be overwritten with
Vals == {0, 1}

\* what a read outside the buffer may yield
Garbage == {-1, -2}

----------------------------------------------------------------------------
(* Results *)

Ok(v) == [ok |-> TRUE, val |-> v]

Err(code, msg, info) == [ok |-> FALSE, code |-> code, msg |-> msg, info |-> info]

\* the value of Ok(())
Unit == [unit |-> TRUE]

IsErr(r, code, msg) == r.ok = FALSE /\ r.code = code /\ r.msg = msg

\* Result::and_then
and_then(r, f(_)) == IF r.ok THEN f(r.val) ELSE r

SetMin(S) == CHOOSE x \in S : \A y \in S : x <= y

RECURSIVE Product(_)
Product(s) == IF s = <<>> THEN 1 ELSE Head(s) * Product(Tail(s))

----------------------------------------------------------------------------
(* The matrix as the binding exposes it *)

dims(m) == Len(m.size)

rows(m) == IF dims(m) = 0 THEN 0 ELSE IF dims(m) <= 2 THEN m.size[1] ELSE -1

cols(m) == IF dims(m) = 0 THEN 0 ELSE IF dims(m) = 2 THEN m.size[2] ELSE -1

total(m) == IF dims(m) = 0 THEN 0 ELSE Product(m.size)

elem_size(m) == IF m.typ = "CV_8U" THEN 1 ELSE 4

\* Mat::size(): Size { width, height } of the first two axes
size(m) ==
    IF dims(m) = 0 THEN [width |-> 0, height |-> 0]
    ELSE [width |-> m.size[2], height |-> m.size[1]]

\* the continuity flag: no padding between the rows
is_continuous(m) ==
    /\ dims(m) >= 1
    /\ \/ m.size[1] <= 1
       \/ m.step = Product(Tail(m.size))

\* row-major offset of idx inside the axes 2.. of the shape
RECURSIVE InnerOffset(_, _)
InnerOffset(sz, idx) ==
    IF idx = <<>> THEN 0
    ELSE Head(idx) * Product(Tail(sz)) + InnerOffset(Tail(sz), Tail(idx))

\* Mat::ptr(idx): data + idx[0] * step[0] + ...
ptr_nd(m, idx) ==
    IF idx = <<>> THEN 0
    ELSE idx[1] * m.step + InnerOffset(Tail(m.size), Tail(idx))

\* Mat::ptr(row, col): no bounds check in a release build
ptr_2d(m, i, j) == i * m.step + j

\* Mat::ptr(i0, i1, i2)
ptr_3d(m, i0, i1, i2) == ptr_nd(m, <<i0, i1, i2>>)

\* the elements of the matrix, as index tuples
RECURSIVE Indices(_)
Indices(sz) ==
    IF sz = <<>> THEN {<<>>}
    ELSE {<<i>> \o t : i \in 0 .. (Head(sz) - 1), t \in Indices(Tail(sz))}

\* the offsets at which the matrix stores its elements
ElemAddrs(m) == IF dims(m) = 0 THEN {} ELSE {ptr_nd(m, ix) : ix \in Indices(m.size)}

\* offset of the i-th element in row-major order of a 2-D matrix
RowMajorAddr(m, i) == (i \div cols(m)) * m.step + (i % cols(m))

\* dereference of a pointer: outside the buffer the read is undefined and
\* yields whatever g the build produces
deref(m, a, g) == IF a \in DOMAIN m.mem THEN m.mem[a] ELSE g

----------------------------------------------------------------------------
(* Matchers *)

match_format(T, mat_type) ==
    IF mat_type = T THEN Ok(Unit)
    ELSE Err("StsUnmatchedFormats", "type mismatch", <<mat_type, T>>)

SetMax(S) == CHOOSE x \in S : \A y \in S : x >= y

\* a match_indices that reports the last offending axis
match_indices_last_bad(m, idx) ==
    IF Len(m.size) # Len(idx)
    THEN Err("StsUnmatchedSizes", "dimension count", <<Len(m.size), Len(idx)>>)
    ELSE LET bad == {k \in 1 .. Len(idx) : ~(0 <= idx[k] /\ idx[k] < m.size[k])}
         IN  IF bad # {}
             THEN LET k == SetMax(bad)
                  IN  Err("StsOutOfRange", "index out of bounds", <<k - 1, idx[k], m.size[k]>>)
             ELSE Ok(Unit)

match_indices(m, idx) ==
    IF Len(m.size) # Len(idx)
    THEN Err("StsUnmatchedSizes", "dimension count", <<Len(m.size), Len(idx)>>)
    ELSE LET bad == {k \in 1 .. Len(idx) : ~(0 <= idx[k] /\ idx[k] < m.size[k])}
         IN  IF bad # {}
             THEN LET k == SetMin(bad)
                  IN  Err("StsOutOfRange", "index out of bounds", <<k - 1, idx[k], m.size[k]>>)
             ELSE Ok(Unit)

\* a match_total that is off by one at the upper end
match_total_off_by_one(m, idx) ==
    IF 0 <= idx /\ idx < total(m) - 1 THEN Ok(Unit)
    ELSE Err("StsOutOfRange", "index out of bounds", <<idx, total(m)>>)

match_total(m, idx) ==
    IF 0 <= idx /\ idx < total(m) THEN Ok(Unit)
    ELSE Err("StsOutOfRange", "index out of bounds", <<idx, total(m)>>)

match_is_continuous(m) ==
    IF is_continuous(m) THEN Ok(Unit)
    ELSE Err("StsUnmatchedSizes", "not continuous", <<>>)

saturating_mul(a, b) == IF a * b > U64_SAT THEN U64_SAT ELSE a * b

RECURSIVE expected_len(_, _, _)
\* the loop of match_length over sizes[k..]: the first negative size is an error
expected_len(sizes, k, acc) ==
    IF k > Len(sizes) THEN Ok(acc)
    ELSE IF sizes[k] < 0
         THEN Err("StsOutOfRange", "negative dimension", <<k - 1>>)
         ELSE expected_len(sizes, k + 1, saturating_mul(acc, sizes[k]))

\* a match_length that only rejects slices that are too short
match_length_at_least(sizes, slice_len, size_mul) ==
    LET e == expected_len(sizes, 1, 1)
    IN  IF ~e.ok THEN e
        ELSE LET exp == IF size_mul > 1 THEN saturating_mul(e.val, size_mul) ELSE e.val
             IN  IF exp > slice_len
                 THEN Err("StsUnmatchedSizes", "size mismatch", <<slice_len, exp>>)
                 ELSE Ok(Unit)

match_length(sizes, slice_len, size_mul) ==
    LET e == expected_len(sizes, 1, 1)
    IN  IF ~e.ok THEN e
        ELSE LET exp == IF size_mul > 1 THEN saturating_mul(e.val, size_mul) ELSE e.val
             IN  IF exp # slice_len
                 THEN Err("StsUnmatchedSizes", "size mismatch", <<slice_len, exp>>)
                 ELSE Ok(Unit)

idx_to_row_col(m, i0) ==
    IF is_continuous(m) THEN <<0, i0>>
    ELSE LET mat_size == size(m)
         IN  IF mat_size.width = 1 THEN <<0, i0>>
             ELSE IF mat_size.height = 1 THEN <<i0, 0>>
             ELSE LET i == i0 \div mat_size.height
                  IN  <<i, i0 - i * mat_size.height>>

col_count_i32(col_count) ==
    IF col_count <= I32_MAX THEN Ok(col_count)
    ELSE Err("StsBadArg", "column count too high", <<col_count>>)

row_count_i32(row_count) ==
    IF row_count <= I32_MAX THEN Ok(row_count)
    ELSE Err("StsBadArg", "row count too high", <<row_count>>)

----------------------------------------------------------------------------
(* Unchecked accessors *)

\* the element a pointer obtained from ptr_2d(i, j) refers to
Elem(m, i, j, g) ==
    [row |-> i, col |-> j, addr |-> ptr_2d(m, i, j), val |-> deref(m, ptr_2d(m, i, j), g)]

ElemNd(m, idx, g) == [idx |-> idx, addr |-> ptr_nd(m, idx), val |-> deref(m, ptr_nd(m, idx), g)]

at_unchecked(m, i0, g) ==
    LET mat_size == size(m)
        ij == IF is_continuous(m) \/ mat_size.width = 1 THEN <<0, i0>>
              ELSE IF mat_size.height = 1 THEN <<i0, 0>>
              ELSE LET i == i0 \div mat_size.height
                   IN  <<i, i0 - i * mat_size.height>>
    IN  Ok(Elem(m, ij[1], ij[2], g))

\* an at_unchecked_mut that drops the column
at_unchecked_mut_row_only(m, i0, g) ==
    LET ij == idx_to_row_col(m, i0)
    IN  Ok(Elem(m, ij[1], 0, g))

at_unchecked_mut(m, i0, g) ==
    LET ij == idx_to_row_col(m, i0)
    IN  Ok(Elem(m, ij[1], ij[2], g))

at_2d_unchecked(m, row, col, g) == Ok(Elem(m, row, col, g))

\* an at_2d_unchecked_mut that passes (col, row) to ptr_2d_mut
at_2d_unchecked_mut_transposed(m, row, col, g) == Ok(Elem(m, col, row, g))

at_2d_unchecked_mut(m, row, col, g) == Ok(Elem(m, row, col, g))

at_3d_unchecked(m, i0, i1, i2, g) == Ok(ElemNd(m, <<i0, i1, i2>>, g))

at_nd_unchecked(m, idx, g) == Ok(ElemNd(m, idx, g))

at_row_unchecked(m, row, g) ==
    LET width == size(m).width
    IN  IF m.null THEN Ok([slice |-> <<>>])
        ELSE Ok([slice |-> [k \in 1 .. width |-> deref(m, row * m.step + (k - 1), g)]])

data_typed_unchecked(m, g) ==
    IF m.null THEN Ok([slice |-> <<>>])
    ELSE Ok([slice |-> [k \in 1 .. total(m) |-> deref(m, k - 1, g)]])

----------------------------------------------------------------------------
(* Checked accessors (mat_forward and the manual traits) *)

at(m, T, i0, g) ==
    and_then(match_format(T, m.typ),
             LAMBDA u : and_then(match_total(m, i0),
                                 LAMBDA v : at_unchecked(m, i0, g)))

at_mut(m, T, i0, g) ==
    and_then(match_format(T, m.typ),
             LAMBDA u : and_then(match_total(m, i0),
                                 LAMBDA v : at_unchecked_mut(m, i0, g)))

at_2d(m, T, row, col, g) ==
    and_then(match_format(T, m.typ),
             LAMBDA u : and_then(match_indices(m, <<row, col>>),
                                 LAMBDA v : at_2d_unchecked(m, row, col, g)))

at_2d_mut(m, T, row, col, g) ==
    and_then(match_format(T, m.typ),
             LAMBDA u : and_then(match_indices(m, <<row, col>>),
                                 LAMBDA v : at_2d_unchecked_mut(m, row, col, g)))

at_3d(m, T, i0, i1, i2, g) ==
    and_then(match_format(T, m.typ),
             LAMBDA u : and_then(match_indices(m, <<i0, i1, i2>>),
                                 LAMBDA v : at_3d_unchecked(m, i0, i1, i2, g)))

at_nd(m, T, idx, g) ==
    and_then(match_format(T, m.typ),
             LAMBDA u : and_then(match_indices(m, idx),
                                 LAMBDA v : at_nd_unchecked(m, idx, g)))

at_row(m, T, row, g) ==
    and_then(match_format(T, m.typ),
             LAMBDA u : and_then(match_indices(m, <<row, 0>>),
                                 LAMBDA v : at_row_unchecked(m, row, g)))

\* a data_bytes that counts elements, not bytes
data_bytes_in_elements(m) ==
    and_then(match_is_continuous(m),
             LAMBDA u : IF m.null THEN Ok([len |-> 0]) ELSE Ok([len |-> total(m)]))

data_bytes(m) ==
    and_then(match_is_continuous(m),
             LAMBDA u : IF m.null THEN Ok([len |-> 0])
                        ELSE Ok([len |-> total(m) * elem_size(m)]))

data_bytes_mut(m) ==
    and_then(match_is_continuous(m),
             LAMBDA u : IF m.null THEN Ok([len |-> 0])
                        ELSE Ok([len |-> total(m) * elem_size(m)]))

data_typed(m, T, g) ==
    and_then(match_format(T, m.typ),
             LAMBDA u : and_then(match_is_continuous(m),
                                 LAMBDA v : data_typed_unchecked(m, g)))

\* collect::<Result<_>>() over the rows: the first failing row's error
RECURSIVE CollectRows(_, _, _, _, _)
CollectRows(m, T, g, row_n, acc) ==
    IF row_n >= size(m).height THEN Ok([rows |-> acc])
    ELSE LET r == at_row(m, T, row_n, g)
         IN  IF r.ok THEN CollectRows(m, T, g, row_n + 1, Append(acc, r.val.slice)) ELSE r

to_vec_2d(m, T, g) ==
    and_then(match_format(T, m.typ),
             LAMBDA u :
                IF Len(m.size) # 2
                THEN Err("StsUnmatchedSizes", "dimension count", <<Len(m.size)>>)
                ELSE LET width == m.size[2]
                         height == m.size[1]
                     IN  IF is_continuous(m)
                         THEN and_then(data_typed(m, T, g),
                                       LAMBDA data :
                                          Ok([rows |->
                                              [row_n \in 1 .. height |->
                                                 SubSeq(data.slice, (row_n - 1) * width + 1,
                                                        row_n * width)]]))
                         ELSE CollectRows(m, T, g, 0, <<>>))

\* MatIter { iter: None }
NoIter == [cursor |-> [none |-> TRUE]]

\* MatIter::new over a cursor
MatIter_new(T, cursor) ==
    and_then(match_format(T, cursor.typ), LAMBDA u : Ok([cursor |-> cursor]))

\* iter / iter_mut: `over` is the outcome of MatConstIterator::over(self)
iter_of(m, T, over) ==
    IF over.ok THEN MatIter_new(T, over.val) ELSE Ok(NoIter)

iter_mut_of(m, T, over) ==
    IF over.ok THEN MatIter_new(T, over.val) ELSE Ok(NoIter)

\* a cursor over m standing at its p-th element (row-major)
Cursor(m, p) == [typ |-> m.typ, p |-> p, n |-> total(m)]

\* a has_elements that gives up one element early
has_elements_before_last(cursor) == cursor.p # cursor.n /\ cursor.p + 1 # cursor.n

has_elements(cursor) == cursor.p # cursor.n

current(m, cursor, T, g) ==
    and_then(match_format(T, cursor.typ),
             LAMBDA u : IF has_elements(cursor)
                        THEN Ok([p |-> cursor.p, val |-> deref(m, RowMajorAddr(m, cursor.p), g)])
                        ELSE Err("StsOutOfRange", "no more elements", <<>>))

\* MatConstIterator::ptr: offset of the element the cursor stands at
ptr(m, cursor) == IF dims(m) = 2 THEN RowMajorAddr(m, cursor.p) ELSE cursor.p

\* MatConstIterator::pos: Point { x, y } of the element the cursor stands at
pos(m, cursor) == Ok([x |-> cursor.p % cols(m), y |-> cursor.p \div cols(m)])

\* MatConstIterator::seek(ofs, relative): the cursor stays between the first
\* element and the end
seek(cursor, ofs, relative) ==
    LET q == (IF relative THEN cursor.p ELSE 0) + ofs
    IN  Ok([cursor EXCEPT !.p = IF q < 0 THEN 0 ELSE IF q > cursor.n THEN cursor.n ELSE q])

\* Option<(Point, T)>: None, and Some((pos, cur)) with cur read at (or pointing to) addr
NoItem == [none |-> TRUE, x |-> -1, y |-> -1, val |-> -1, addr |-> -1]

Some(point, addr, val) ==
    [none |-> FALSE, x |-> point.x, y |-> point.y, val |-> val, addr |-> addr]

\* Iterator::next of MatIter: the item and the iterator after the call
MatIter_next(it, m, g) ==
    IF "none" \in DOMAIN it.cursor THEN [item |-> NoItem, iter |-> it]
    ELSE IF has_elements(it.cursor)
         THEN LET cur == deref(m, ptr(m, it.cursor), g)
                  point == pos(m, it.cursor)
                  moved == seek(it.cursor, 1, TRUE)
              IN  IF ~point.ok THEN [item |-> NoItem, iter |-> it]
                  ELSE IF ~moved.ok THEN [item |-> NoItem, iter |-> it]
                  ELSE [item |-> Some(point.val, ptr(m, it.cursor), cur),
                        iter |-> [it EXCEPT !.cursor = moved.val]]
         ELSE [item |-> NoItem, iter |-> it]

\* Iterator::next of MatIterMut: the item carries the `&mut T` at addr
MatIterMut_next(it, m, g) ==
    IF "none" \in DOMAIN it.cursor THEN [item |-> NoItem, iter |-> it]
    ELSE IF has_elements(it.cursor)
         THEN LET cur == ptr(m, it.cursor)
                  point == pos(m, it.cursor)
                  moved == seek(it.cursor, 1, TRUE)
              IN  IF ~point.ok THEN [item |-> NoItem, iter |-> it]
                  ELSE IF ~moved.ok THEN [item |-> NoItem, iter |-> it]
                  ELSE [item |-> Some(point.val, cur, deref(m, cur, g)),
                        iter |-> [it EXCEPT !.cursor = moved.val]]
         ELSE [item |-> NoItem, iter |-> it]

----------------------------------------------------------------------------
(* The matrices of the model *)

\* a fresh buffer of n elements, each holding its own offset
IotaMem(n) == [a \in 0 .. (n - 1) |-> a]

ZeroMem(n) == [a \in 0 .. (n - 1) |-> 0]

\* a rows x cols matrix (or a region of a wider one) with `pad` elements after each row
Mat2D(typ, r, c, pad, null, mem) ==
    [typ |-> typ, size |-> <<r, c>>, step |-> c + pad, null |-> null, mem |-> mem]

\* a continuous 3-D matrix
Mat3D(typ, a, b, c) ==
    [typ |-> typ, size |-> <<a, b, c>>, step |-> b * c, null |-> FALSE,
     mem |-> IotaMem(a * b * c)]

\* Mat::default(): no dimensions, no data
Mat0(typ) == [typ |-> typ, size |-> <<>>, step |-> 0, null |-> TRUE, mem |-> <<>>]

Mats2D ==
    {Mat2D(t, r, c, pad, FALSE, IotaMem(r * (c + pad))) :
        t \in Types, r \in 0 .. MaxExt, c \in 0 .. MaxExt, pad \in 0 .. MaxPad}
    \cup {Mat2D(t, r, c, 0, TRUE, <<>>) : t \in Types, r \in {0}, c \in 0 .. MaxExt}

Mats3D == {Mat3D(t, a, b, c) : t \in Types, a \in 1 .. MaxExt3, b \in 1 .. MaxExt3, c \in 1 .. MaxExt3}

Mats == Mats2D \cup Mats3D \cup {Mat0(t) : t \in Types}

NoMat == Mat0("CV_8U")

Idle == [op |-> "idle"]

None == [ok |-> TRUE, val |-> [none |-> TRUE]]

FlatIdx == -1 .. (MaxExt * MaxExt)

Idx2 == -1 .. MaxExt

Idx3 == -1 .. MaxExt3

\* index lists of 0 to 3 indices
IdxLists ==
    {<<>>} \cup {<<a>> : a \in Idx3} \cup {<<a, b>> : a, b \in Idx3}
    \cup {<<a, b, c>> : a, b, c \in Idx3}

----------------------------------------------------------------------------
(* Spec: one call at a time on a matrix that is not written *)

Init ==
    /\ mat \in Mats
    /\ call = Idle
    /\ ret = None
    /\ shadow = <<>>
    /\ iter = NoIter

Returned(c, r) ==
    /\ call = Idle
    /\ call' = c
    /\ ret' = r
    /\ UNCHANGED <<mat, shadow, iter>>

At ==
    \E T \in Types, i0 \in FlatIdx, g \in Garbage :
        Returned([op |-> "at", T |-> T, i0 |-> i0], at(mat, T, i0, g))

AtMut ==
    \E T \in Types, i0 \in FlatIdx, g \in Garbage :
        Returned([op |-> "at_mut", T |-> T, i0 |-> i0], at_mut(mat, T, i0, g))

At2d ==
    \E T \in Types, row \in Idx2, col \in Idx2, g \in Garbage :
        Returned([op |-> "at_2d", T |-> T, idx |-> <<row, col>>], at_2d(mat, T, row, col, g))

At2dMut ==
    \E T \in Types, row \in Idx2, col \in Idx2, g \in Garbage :
        Returned([op |-> "at_2d_mut", T |-> T, idx |-> <<row, col>>],
                 at_2d_mut(mat, T, row, col, g))

At3d ==
    \E T \in Types, i0 \in Idx3, i1 \in Idx3, i2 \in Idx3, g \in Garbage :
        Returned([op |-> "at_3d", T |-> T, idx |-> <<i0, i1, i2>>],
                 at_3d(mat, T, i0, i1, i2, g))

AtNd ==
    \E T \in Types, idx \in IdxLists, g \in Garbage :
        Returned([op |-> "at_nd", T |-> T, idx |-> idx], at_nd(mat, T, idx, g))

MatchIndices ==
    \E idx \in IdxLists :
        Returned([op |-> "match_indices", idx |-> idx], match_indices(mat, idx))

AtRow ==
    \E T \in Types, row \in Idx2, g \in Garbage :
        Returned([op |-> "at_row", T |-> T, row |-> row], at_row(mat, T, row, g))

DataBytes == Returned([op |-> "data_bytes"], data_bytes(mat))

DataBytesMut == Returned([op |-> "data_bytes_mut"], data_bytes_mut(mat))

DataTyped ==
    \E T \in Types, g \in Garbage :
        Returned([op |-> "data_typed", T |-> T], data_typed(mat, T, g))

ToVec2d ==
    \E T \in Types, g \in Garbage :
        Returned([op |-> "to_vec_2d", T |-> T], to_vec_2d(mat, T, g))

\* the outcomes of MatConstIterator::over(self): a cursor at the first element, or an error
Over(m, created) == IF created THEN Ok(Cursor(m, 0)) ELSE Err("StsError", "no cursor", <<>>)

Iter ==
    \E T \in Types, created \in BOOLEAN :
        Returned([op |-> "iter", T |-> T, created |-> created],
                 iter_of(mat, T, Over(mat, created)))

IterMut ==
    \E T \in Types, created \in BOOLEAN :
        Returned([op |-> "iter_mut", T |-> T, created |-> created],
                 iter_mut_of(mat, T, Over(mat, created)))

Current ==
    \E T \in Types, p \in 0 .. total(mat), g \in Garbage :
        /\ dims(mat) = 2
        /\ Returned([op |-> "current", T |-> T, p |-> p], current(mat, Cursor(mat, p), T, g))

\* the caller drops the result
Return ==
    /\ call # Idle
    /\ call' = Idle
    /\ ret' = None
    /\ UNCHANGED <<mat, shadow, iter>>

Next ==
    \/ At
    \/ AtMut
    \/ At2d
    \/ At2dMut
    \/ At3d
    \/ AtNd
    \/ MatchIndices
    \/ AtRow
    \/ DataBytes
    \/ DataBytesMut
    \/ DataTyped
    \/ ToVec2d
    \/ Iter
    \/ IterMut
    \/ Current
    \/ Return

Spec == Init /\ [][Next]_vars

----------------------------------------------------------------------------
(* SpecRW: writes through the mutable accessors, then reads *)

\* a write through a `&mut T` that points at offset a
store(m, a, v) == IF a \in DOMAIN m.mem THEN [m EXCEPT !.mem[a] = v] ELSE m

\* the matrices of SpecRW: zero-filled, as new_rows_cols_with_default leaves them
MatsW ==
    {Mat2D("CV_8U", r, c, pad, FALSE, ZeroMem(r * (c + pad))) :
        r \in 0 .. MaxExtW, c \in 0 .. MaxExtW, pad \in 0 .. MaxPad}

IdxW == -1 .. MaxExtW

\* shadow: for each element of the matrix, the value last written to it
InitRW ==
    /\ mat \in MatsW
    /\ call = Idle
    /\ ret = None
    /\ shadow = [ix \in Indices(mat.size) |-> 0]
    /\ iter = NoIter

\* a call that returned the mutable reference r, through which v is then written
Written(c, r, ix, v) ==
    /\ call = Idle
    /\ call' = c
    /\ ret' = r
    /\ mat' = IF r.ok THEN store(mat, r.val.addr, v) ELSE mat
    /\ shadow' = IF r.ok /\ ix \in DOMAIN shadow THEN [shadow EXCEPT ![ix] = v] ELSE shadow
    /\ UNCHANGED iter

Write2d ==
    \E T \in Types, row \in IdxW, col \in IdxW, v \in Vals, g \in Garbage :
        Written([op |-> "at_2d_mut", T |-> T, idx |-> <<row, col>>, v |-> v],
                at_2d_mut(mat, T, row, col, g), <<row, col>>, v)

Read2d ==
    \E T \in Types, row \in IdxW, col \in IdxW, g \in Garbage :
        Returned([op |-> "at_2d", T |-> T, idx |-> <<row, col>>], at_2d(mat, T, row, col, g))

NextRW ==
    \/ Write2d
    \/ Read2d
    \/ Return

SpecRW == InitRW /\ [][NextRW]_vars

----------------------------------------------------------------------------
(* SpecFlat: writes through at_mut(i), then reads through at(i) *)

MatsFlat ==
    {Mat2D("CV_8U", r, c, pad, FALSE, ZeroMem(r * (c + pad))) :
        r \in 0 .. MaxFlatRows, c \in 0 .. MaxFlatCols, pad \in 0 .. MaxPad}

IdxFlat == -1 .. (MaxFlatRows * MaxFlatCols)

\* no value has been written through this index yet
Unwritten == -1

\* shadow: for each flat index, the value last written through at_mut(i)
InitFlat ==
    /\ mat \in MatsFlat
    /\ call = Idle
    /\ ret = None
    /\ shadow = [i \in 0 .. (total(mat) - 1) |-> Unwritten]
    /\ iter = NoIter

WriteFlat ==
    /\ call = Idle
    /\ \E T \in Types, i0 \in IdxFlat, v \in Vals, g \in Garbage :
        Written([op |-> "at_mut", T |-> T, i0 |-> i0, v |-> v], at_mut(mat, T, i0, g), i0, v)

ReadFlat ==
    /\ call = Idle
    /\ \E T \in Types, i0 \in IdxFlat, g \in Garbage :
        Returned([op |-> "at", T |-> T, i0 |-> i0], at(mat, T, i0, g))

NextFlat ==
    \/ WriteFlat
    \/ ReadFlat
    \/ Return

SpecFlat == InitFlat /\ [][NextFlat]_vars

----------------------------------------------------------------------------
(* Constructors *)

\* Mat::new_rows_cols: freshly allocated, continuous, uninitialised storage
new_rows_cols(nrows, ncols, typ, g) ==
    Ok(Mat2D(typ, nrows, ncols, 0, nrows * ncols = 0, [a \in 0 .. (nrows * ncols - 1) |-> g]))

\* Mat::new_rows_cols_with_data_unsafe_def: a rows x cols header over the caller's data
new_rows_cols_with_data_unsafe_def(nrows, ncols, typ, data) ==
    Ok([view |-> Mat2D(typ, nrows, ncols, 0, FALSE, data)])

new_rows_cols_with_data(T, nrows, ncols, data) ==
    and_then(match_length(<<nrows, ncols>>, Len(data), 1),
             LAMBDA u : new_rows_cols_with_data_unsafe_def(nrows, ncols, T, data))

new_rows_cols_with_data_mut(T, nrows, ncols, data) ==
    and_then(match_length(<<nrows, ncols>>, Len(data), 1),
             LAMBDA u : new_rows_cols_with_data_unsafe_def(nrows, ncols, T, data))

\* the loop of from_exact_iter from item i on: ptr::write(out.at_unchecked_mut(i)?, x)
RECURSIVE write_items(_, _, _, _)
write_items(out, s, i, g) ==
    IF i >= Len(s) THEN Ok([mat |-> out])
    ELSE LET r == at_unchecked_mut(out, i, g)
         IN  IF r.ok THEN write_items(store(out, r.val.addr, s[i + 1]), s, i + 1, g) ELSE r

from_exact_iter(T, s, g) ==
    and_then(row_count_i32(Len(s)),
             LAMBDA n : and_then(new_rows_cols(n, 1, T, g),
                                 LAMBDA out : write_items(out, s, 0, g)))

\* mem::size_of::<T>() of the element types u8 and f32
size_of(T) == IF T = "CV_8U" THEN 1 ELSE 4

\* i32::try_from(len)?
i32_try_from(len) ==
    IF len <= I32_MAX THEN Ok(len) ELSE Err("StsBadArg", "conversion", <<len>>)

new_rows_cols_with_bytes(T, nrows, ncols, data) ==
    and_then(match_length(<<nrows, ncols>>, Len(data), size_of(T)),
             LAMBDA u : new_rows_cols_with_data_unsafe_def(nrows, ncols, T, data))

new_rows_cols_with_bytes_mut(T, nrows, ncols, data) ==
    and_then(match_length(<<nrows, ncols>>, Len(data), size_of(T)),
             LAMBDA u : new_rows_cols_with_data_unsafe_def(nrows, ncols, T, data))

\* a from_bytes that leaves the remainder to the length check
from_bytes_no_remainder_check(T, s) ==
    LET len == Len(s) \div size_of(T)
    IN  and_then(i32_try_from(len), LAMBDA ncols : new_rows_cols_with_bytes(T, 1, ncols, s))

from_bytes(T, s) ==
    LET rem == Len(s) % size_of(T)
    IN  IF rem # 0
        THEN Err("StsBadArg", "unexpected number of bytes", <<Len(s)>>)
        ELSE LET len == Len(s) \div size_of(T)
             IN  and_then(i32_try_from(len),
                          LAMBDA ncols : new_rows_cols_with_bytes(T, 1, ncols, s))

from_bytes_mut(T, s) ==
    LET rem == Len(s) % size_of(T)
    IN  IF rem # 0
        THEN Err("StsBadArg", "unexpected number of bytes", <<Len(s)>>)
        ELSE LET len == Len(s) \div size_of(T)
             IN  and_then(i32_try_from(len),
                          LAMBDA ncols : new_rows_cols_with_bytes_mut(T, 1, ncols, s))

\* Mat::new_rows_cols_with_default: freshly allocated, continuous, every element = v
new_rows_cols_with_default(nrows, ncols, typ, v) ==
    Ok(Mat2D(typ, nrows, ncols, 0, nrows * ncols = 0, [a \in 0 .. (nrows * ncols - 1) |-> v]))

\* the `&mut [T]` of a row: the offset of its first element, and its length
at_row_unchecked_mut(m, row) ==
    LET width == size(m).width
    IN  IF m.null THEN Ok([base |-> 0, len |-> 0])
        ELSE Ok([base |-> row * m.step, len |-> width])

at_row_mut(m, T, row) ==
    and_then(match_format(T, m.typ),
             LAMBDA u : and_then(match_indices(m, <<row, 0>>),
                                 LAMBDA v : at_row_unchecked_mut(m, row)))

\* trg.copy_from_slice(src), trg starting at offset base
copy_from_slice(m, base, src) ==
    [m EXCEPT !.mem = [a \in DOMAIN m.mem |->
                          IF base <= a /\ a < base + Len(src) THEN src[a - base + 1]
                          ELSE m.mem[a]]]

\* the loop of from_slice_2d from row row_n on
RECURSIVE copy_rows(_, _, _, _)
copy_rows(out, T, s, row_n) ==
    IF row_n >= Len(s) THEN Ok([mat |-> out])
    ELSE LET trg == at_row_mut(out, T, row_n)
             src == s[row_n + 1]
         IN  IF ~trg.ok THEN trg
             ELSE IF trg.val.len # Len(src)
                  THEN Err("StsUnmatchedSizes", "unmatched row length",
                           <<Len(src), row_n, trg.val.len>>)
                  ELSE copy_rows(copy_from_slice(out, trg.val.base, src), T, s, row_n + 1)

from_slice_2d(T, s) ==
    and_then(IF Len(s) > 0 THEN col_count_i32(Len(s[1])) ELSE Ok(0),
             LAMBDA col_count :
                 and_then(IF col_count > 0 THEN row_count_i32(Len(s)) ELSE Ok(0),
                          LAMBDA row_count :
                              and_then(new_rows_cols_with_default(row_count, col_count, T, 0),
                                       LAMBDA out :
                                           IF row_count > 0 /\ col_count > 0
                                           THEN copy_rows(out, T, s, 0)
                                           ELSE Ok([mat |-> out]))))

----------------------------------------------------------------------------
(* SpecCtor: views are built over slices; a matrix is collected from an
   iterator, then read *)

\* the slice 0, 1, ..., len - 1
Slice(len) == [k \in 1 .. len |-> k - 1]

Extents == (0 - MaxLen) .. MaxLen

\* the items an iterator may yield
Items == 1 .. MaxN

RECURSIVE SeqsUpTo(_, _)
SeqsUpTo(S, n) ==
    IF n = 0 THEN {<<>>}
    ELSE LET shorter == SeqsUpTo(S, n - 1)
         IN  shorter \cup {Append(q, x) : q \in {t \in shorter : Len(t) = n - 1}, x \in S}

InitCtor ==
    /\ mat = NoMat
    /\ call = Idle
    /\ ret = None
    /\ shadow = <<>>
    /\ iter = NoIter

NewRowsColsWithData ==
    /\ call = Idle
    /\ mat = NoMat
    /\ \E T \in Types, nrows \in Extents, ncols \in Extents, len \in 0 .. MaxLen :
        Returned([op |-> "new_rows_cols_with_data", T |-> T, rows |-> nrows, cols |-> ncols,
                  len |-> len],
                 new_rows_cols_with_data(T, nrows, ncols, Slice(len)))

NewRowsColsWithDataMut ==
    /\ call = Idle
    /\ mat = NoMat
    /\ \E T \in Types, nrows \in Extents, ncols \in Extents, len \in 0 .. MaxLen :
        Returned([op |-> "new_rows_cols_with_data_mut", T |-> T, rows |-> nrows,
                  cols |-> ncols, len |-> len],
                 new_rows_cols_with_data_mut(T, nrows, ncols, Slice(len)))

\* from_exact_iter(s): the matrix it returns becomes the matrix under access,
\* shadow keeps the items of s
FromExactIter ==
    /\ call = Idle
    /\ mat = NoMat
    /\ \E T \in Types, s \in SeqsUpTo(Items, MaxN), g \in Garbage :
        LET r == from_exact_iter(T, s, g)
        IN  /\ call' = [op |-> "from_exact_iter", T |-> T]
            /\ ret' = IF r.ok THEN Ok([built |-> TRUE]) ELSE r
            /\ mat' = IF r.ok THEN r.val.mat ELSE mat
            /\ shadow' = s
            /\ UNCHANGED iter

\* the rows handed to from_slice_2d
RowsOfItems == SeqsUpTo(SeqsUpTo(Vals, MaxRowLen), MaxRowCount)

FromSlice2d ==
    /\ call = Idle
    /\ mat = NoMat
    /\ \E T \in Types, s \in RowsOfItems :
        Returned([op |-> "from_slice_2d", T |-> T, s |-> s], from_slice_2d(T, s))

FromBytes ==
    /\ call = Idle
    /\ mat = NoMat
    /\ \E T \in Types, len \in 0 .. MaxBytes :
        Returned([op |-> "from_bytes", T |-> T, len |-> len], from_bytes(T, Slice(len)))

FromBytesMut ==
    /\ call = Idle
    /\ mat = NoMat
    /\ \E T \in Types, len \in 0 .. MaxBytes :
        Returned([op |-> "from_bytes_mut", T |-> T, len |-> len], from_bytes_mut(T, Slice(len)))

\* at(i) on the constructed matrix
AtBuilt ==
    \E T \in Types, i0 \in -1 .. (MaxN + 1), g \in Garbage :
        /\ mat # NoMat
        /\ Returned([op |-> "at", T |-> T, i0 |-> i0], at(mat, T, i0, g))

NextCtor ==
    \/ NewRowsColsWithData
    \/ NewRowsColsWithDataMut
    \/ FromExactIter
    \/ FromSlice2d
    \/ FromBytes
    \/ FromBytesMut
    \/ AtBuilt
    \/ Return

SpecCtor == InitCtor /\ [][NextCtor]_vars

----------------------------------------------------------------------------
(* Regions of interest *)

Rect(x, y, width, height) == [x |-> x, y |-> y, width |-> width, height |-> height]

\* Rect_::empty
RectEmpty(r) == r.width <= 0 \/ r.height <= 0

\* Rect_ & Rect_: the overlap of two rectangles, the default rectangle if there is none
RectAnd(a, b) ==
    LET x == SetMax({a.x, b.x})
        y == SetMax({a.y, b.y})
        w == SetMin({a.x + a.width, b.x + b.width}) - x
        h == SetMin({a.y + a.height, b.y + b.height}) - y
    IN  IF w <= 0 \/ h <= 0 THEN Rect(0, 0, 0, 0) ELSE Rect(x, y, w, h)

\* Mat::roi_mut: a header over the elements of m inside roi; roi must lie inside m
roi_mut(m, roi) ==
    IF /\ 0 <= roi.x /\ 0 <= roi.width /\ roi.x + roi.width <= cols(m)
       /\ 0 <= roi.y /\ 0 <= roi.height /\ roi.y + roi.height <= rows(m)
    THEN Ok([size |-> <<roi.height, roi.width>>, step |-> m.step,
             origin |-> roi.y * m.step + roi.x])
    ELSE Err("StsAssert", "roi outside matrix", <<>>)

\* a roi_2_mut that does not compare the regions
roi_2_mut_unchecked(m, roi1, roi2) ==
    and_then(roi_mut(m, roi1),
             LAMBDA out1 : and_then(roi_mut(m, roi2),
                                    LAMBDA out2 : Ok([out1 |-> out1, out2 |-> out2])))

roi_2_mut(m, roi1, roi2) ==
    IF RectEmpty(RectAnd(roi1, roi2))
    THEN and_then(roi_mut(m, roi1),
                  LAMBDA out1 : and_then(roi_mut(m, roi2),
                                         LAMBDA out2 : Ok([out1 |-> out1, out2 |-> out2])))
    ELSE Err("StsBadArg", "ROIs must not intersect", <<>>)

----------------------------------------------------------------------------
(* SpecRoi: pairs of regions are taken from a matrix *)

MatsRoi ==
    {Mat2D("CV_8U", MaxRoi, MaxRoi, pad, FALSE, ZeroMem(MaxRoi * (MaxRoi + pad))) :
        pad \in 0 .. MaxPad}

Rects == {Rect(x, y, w, h) : x \in 0 .. MaxRoi, y \in 0 .. MaxRoi,
                             w \in 0 .. MaxRoi, h \in 0 .. MaxRoi}

InitRoi ==
    /\ mat \in MatsRoi
    /\ call = Idle
    /\ ret = None
    /\ shadow = <<>>
    /\ iter = NoIter

Roi2Mut ==
    /\ call = Idle
    /\ \E roi1 \in Rects, roi2 \in Rects :
        Returned([op |-> "roi_2_mut", roi1 |-> roi1, roi2 |-> roi2], roi_2_mut(mat, roi1, roi2))

NextRoi == Roi2Mut \/ Return

SpecRoi == InitRoi /\ [][NextRoi]_vars

----------------------------------------------------------------------------
(* SpecIter: an iterator is created over a matrix and pulled *)

InitIter ==
    /\ mat \in Mats2D
    /\ call = Idle
    /\ ret = None
    /\ shadow = <<>>
    /\ iter = NoIter

\* the outcomes of MatConstIterator::over: a cursor on any matrix that has
\* elements; on an empty one a cursor at its end, or an error
Creations(m) == IF total(m) > 0 THEN {TRUE} ELSE BOOLEAN

\* `let it = m.iter::<T>()` (or iter_mut): iter holds the iterator and its
\* kind, shadow the items it has returned so far
Opened(c, r, kind) ==
    /\ call' = c
    /\ ret' = IF r.ok THEN Ok([opened |-> TRUE]) ELSE r
    /\ iter' = IF r.ok THEN [cursor |-> r.val.cursor, kind |-> kind] ELSE NoIter
    /\ shadow' = <<>>
    /\ UNCHANGED mat

IterOpen ==
    /\ call = Idle
    /\ "kind" \notin DOMAIN iter
    /\ \E T \in Types, created \in Creations(mat) :
        Opened([op |-> "iter", T |-> T, created |-> created],
               iter_of(mat, T, Over(mat, created)), "MatIter")

IterMutOpen ==
    /\ call = Idle
    /\ "kind" \notin DOMAIN iter
    /\ \E T \in Types, created \in Creations(mat) :
        Opened([op |-> "iter_mut", T |-> T, created |-> created],
               iter_mut_of(mat, T, Over(mat, created)), "MatIterMut")

Pulled(r) ==
    /\ call' = [op |-> "next"]
    /\ ret' = Ok(r.item)
    /\ iter' = r.iter
    /\ shadow' = Append(shadow, r.item)
    /\ UNCHANGED mat

IterNext ==
    /\ call = Idle
    /\ "kind" \in DOMAIN iter
    /\ iter.kind = "MatIter"
    /\ Len(shadow) < total(mat) + MaxAfter
    /\ \E g \in Garbage : Pulled(MatIter_next(iter, mat, g))

IterMutNext ==
    /\ call = Idle
    /\ "kind" \in DOMAIN iter
    /\ iter.kind = "MatIterMut"
    /\ Len(shadow) < total(mat) + MaxAfter
    /\ \E g \in Garbage : Pulled(MatIterMut_next(iter, mat, g))

NextIter ==
    \/ IterOpen
    \/ IterMutOpen
    \/ IterNext
    \/ IterMutNext
    \/ Return

SpecIter == InitIter /\ [][NextIter]_vars

----------------------------------------------------------------------------
(* Debug rendering *)

\* Mat::get_data_dump: the elements of the matrix, as text, in row-major order
get_data_dump(m) ==
    Ok([k \in 1 .. total(m) |-> m.mem[RowMajorAddr(m, k - 1)]])

\* what MatDataDumper writes: the dump, or the placeholder naming the threshold
Dump(elems) == [dumped |-> TRUE, elems |-> elems, threshold |-> MAX_DUMP_SIZE]

Placeholder == [dumped |-> FALSE, elems |-> <<>>, threshold |-> MAX_DUMP_SIZE]

\* a MatDataDumper that dumps below the threshold only
MatDataDumper_fmt_below(m) ==
    IF total(m) < MAX_DUMP_SIZE
    THEN and_then(get_data_dump(m), LAMBDA text : Ok(Dump(text)))
    ELSE Ok(Placeholder)

\* fmt::Debug for MatDataDumper
MatDataDumper_fmt(m) ==
    IF total(m) <= MAX_DUMP_SIZE
    THEN and_then(get_data_dump(m), LAMBDA text : Ok(Dump(text)))
    ELSE Ok(Placeholder)

\* fmt::Debug for Mat: the fields of the debug_struct that depend on the shape
Mat_fmt(m) ==
    and_then(MatDataDumper_fmt(m),
             LAMBDA data : Ok([type |-> m.typ, dims |-> dims(m), rows |-> rows(m),
                               cols |-> cols(m), total |-> total(m),
                               is_continuous |-> is_continuous(m), data |-> data]))

----------------------------------------------------------------------------
(* SpecDebug: matrices are rendered with {:?} *)

\* one-row matrices with about MAX_DUMP_SIZE elements
MatsBig ==
    {Mat2D(t, 1, MAX_DUMP_SIZE + d, 0, FALSE, IotaMem(MAX_DUMP_SIZE + d)) :
        t \in Types, d \in (0 - MaxOver) .. MaxOver}

InitDebug ==
    /\ mat \in Mats2D \cup {Mat0(t) : t \in Types} \cup MatsBig
    /\ call = Idle
    /\ ret = None
    /\ shadow = <<>>
    /\ iter = NoIter

\* format!("{:?}", mat): shadow keeps the matrix as it was before the call
DebugFmt ==
    /\ call = Idle
    /\ call' = [op |-> "fmt"]
    /\ ret' = Mat_fmt(mat)
    /\ shadow' = mat
    /\ UNCHANGED <<mat, iter>>

NextDebug == DebugFmt \/ Return

SpecDebug == InitDebug /\ [][NextDebug]_vars

----------------------------------------------------------------------------
(* Claims checked under Spec *)

InRange(i, n) == 0 <= i /\ i < n

\* C1 (as claimed): on a 2-D matrix, the (row, col) at / at_mut derive from a
\* flat index that passed the linear-index check lies inside the matrix: on a
\* non-continuous matrix 0 <= row < rows and 0 <= col < cols, on a continuous
\* one the location (0, i) is the i-th element in row-major order.
C1_FlatIndexInsideMatrix ==
    (call.op \in {"at", "at_mut"} /\ ret.ok /\ dims(mat) = 2) =>
        IF is_continuous(mat)
        THEN /\ ret.val.row = 0
             /\ ret.val.col = call.i0
             /\ ret.val.addr = RowMajorAddr(mat, call.i0)
        ELSE /\ InRange(ret.val.row, rows(mat))
             /\ InRange(ret.val.col, cols(mat))

TypedOps ==
    {"at", "at_mut", "at_2d", "at_2d_mut", "at_3d", "at_nd", "at_row", "data_typed",
     "to_vec_2d", "iter", "iter_mut", "current"}

\* C2 (as claimed): at every typed-access entry point a requested type that
\* differs from the matrix's type tag yields the type-mismatch error, whatever
\* the indices, the continuity, or whether the cursor could be created.
C2_TypeMismatchIsAnError ==
    (call.op \in TypedOps /\ call.T # mat.typ) =>
        IsErr(ret, "StsUnmatchedFormats", "type mismatch")

\* C3: match_indices fails with the dimension-count error iff the lengths
\* differ; otherwise it succeeds iff every index is inside its extent, and on
\* failure the error names the lowest offending axis, its index and its extent.
C3_MatchIndices ==
    call.op = "match_indices" =>
        LET idx == call.idx
            sz == mat.size
        IN  IF Len(idx) # Len(sz)
            THEN IsErr(ret, "StsUnmatchedSizes", "dimension count")
            ELSE IF \A k \in 1 .. Len(idx) : InRange(idx[k], sz[k])
                 THEN ret.ok
                 ELSE /\ IsErr(ret, "StsOutOfRange", "index out of bounds")
                      /\ \E k \in 1 .. Len(idx) :
                            /\ ~InRange(idx[k], sz[k])
                            /\ \A j \in 1 .. (k - 1) : InRange(idx[j], sz[j])
                            /\ ret.info = <<k - 1, idx[k], sz[k]>>

\* C3's case: two axes are out of range and the lower one is reported
C3_Witness ==
    /\ call.op = "match_indices"
    /\ Len(call.idx) = 3
    /\ Len(mat.size) = 3
    /\ InRange(call.idx[1], mat.size[1])
    /\ ~InRange(call.idx[2], mat.size[2])
    /\ ~InRange(call.idx[3], mat.size[3])
    /\ ~ret.ok
    /\ ret.info[1] = 1

\* C4: with a matching type, at(i) and at_mut(i) fail with the out-of-range
\* error iff i < 0 or i >= total, and succeed otherwise; on an empty matrix
\* every flat access fails.
C4_FlatIndexRange ==
    (call.op \in {"at", "at_mut"} /\ call.T = mat.typ) =>
        IF InRange(call.i0, total(mat))
        THEN ret.ok
        ELSE IsErr(ret, "StsOutOfRange", "index out of bounds")

\* C4's case: index 0 on an empty matrix, and the index total on a non-empty one
C4_Witness ==
    /\ call.op \in {"at", "at_mut"}
    /\ call.T = mat.typ
    /\ \/ total(mat) = 0 /\ call.i0 = 0
       \/ total(mat) > 0 /\ call.i0 = total(mat)
    /\ ~ret.ok

\* C9: data_bytes and data_bytes_mut return total * elem_size bytes on a
\* continuous matrix and fail with the not-continuous error on any other.
C9_DataBytes ==
    call.op \in {"data_bytes", "data_bytes_mut"} =>
        IF is_continuous(mat)
        THEN ret.ok /\ ret.val.len = total(mat) * elem_size(mat)
        ELSE IsErr(ret, "StsUnmatchedSizes", "not continuous")

\* C9's case: the bytes of a continuous matrix of 4-byte elements
C9_Witness ==
    /\ call.op = "data_bytes"
    /\ is_continuous(mat)
    /\ elem_size(mat) = 4
    /\ total(mat) > 1
    /\ ret.ok
    /\ ret.val.len = 4 * total(mat)

\* C10 (as claimed): on a 2-D matrix of the matching type to_vec_2d returns
\* rows vectors of cols elements with result[r][c] the element at (r, c), on
\* the continuous and on the row-by-row path, for every rows >= 0, cols >= 0;
\* on any other dimension count it fails with the dimension-count error.
C10_ToVec2d ==
    (call.op = "to_vec_2d" /\ call.T = mat.typ) =>
        IF dims(mat) = 2
        THEN /\ ret.ok
             /\ Len(ret.val.rows) = rows(mat)
             /\ \A r \in 1 .. rows(mat) :
                   /\ Len(ret.val.rows[r]) = cols(mat)
                   /\ \A c \in 1 .. cols(mat) :
                         ret.val.rows[r][c] = mat.mem[ptr_2d(mat, r - 1, c - 1)]
        ELSE IsErr(ret, "StsUnmatchedSizes", "dimension count")

----------------------------------------------------------------------------
(* Claims checked under SpecRW *)

\* the buffer holds, at each element, the value last written to it, and
\* nothing was written anywhere else
MemIsShadow ==
    /\ \A ix \in Indices(mat.size) : mat.mem[ptr_nd(mat, ix)] = shadow[ix]
    /\ \A a \in DOMAIN mat.mem : a \notin ElemAddrs(mat) => mat.mem[a] = 0

\* C7: on a 2-D matrix (requested type = type tag) at_2d and at_2d_mut succeed
\* for every (row, col) inside the shape, and at_2d returns the value last
\* written to that (row, col) through at_2d_mut; for an index outside
\* [0, extent) on some axis both fail with the out-of-range error naming an
\* offending axis (the first one), and a failed at_2d_mut writes nothing.
C7_At2dReadsLastWrite ==
    /\ MemIsShadow
    /\ (call.op \in {"at_2d", "at_2d_mut"} /\ call.T = mat.typ) =>
          LET row == call.idx[1]
              col == call.idx[2]
          IN  IF InRange(row, rows(mat)) /\ InRange(col, cols(mat))
              THEN /\ ret.ok
                   /\ ret.val.row = row /\ ret.val.col = col
                   /\ call.op = "at_2d" => ret.val.val = shadow[call.idx]
                   /\ call.op = "at_2d_mut" => shadow[call.idx] = call.v
              ELSE /\ IsErr(ret, "StsOutOfRange", "index out of bounds")
                   /\ IF ~InRange(row, rows(mat))
                      THEN ret.info = <<0, row, rows(mat)>>
                      ELSE ret.info = <<1, col, cols(mat)>>

\* C7's case: a read of an element that was written, beside one that still
\* holds another value, on a matrix with padded rows
C7_Witness ==
    /\ call.op = "at_2d"
    /\ ret.ok
    /\ ~is_continuous(mat)
    /\ mat.size = <<2, 2>>
    /\ call.idx = <<1, 0>>
    /\ ret.val.val = 1
    /\ shadow[<<0, 1>>] = 0
    /\ shadow[<<1, 1>>] = 1

----------------------------------------------------------------------------
(* Claims checked under SpecCtor *)

IsViewCall == call.op \in {"new_rows_cols_with_data", "new_rows_cols_with_data_mut"}

\* C5 (as claimed): the length check of new_rows_cols_with_data(_mut) passes
\* iff rows * cols = len, for every pair of signed extents; every other case
\* is a size-mismatch error.
C5_LengthCheckIffProduct ==
    IsViewCall =>
        IF call.rows * call.cols = call.len
        THEN ret.ok
        ELSE IsErr(ret, "StsUnmatchedSizes", "size mismatch")

\* C5 (amended): for extents rows >= 0 and cols >= 0 the view is built iff
\* rows * cols = len, with that shape over the slice, and every other case is
\* the size-mismatch error; a negative extent is rejected with the
\* negative-dimension error naming the first negative axis, whatever len is.
C5_LengthCheckNonNegative ==
    IsViewCall =>
        IF call.rows < 0 \/ call.cols < 0
        THEN /\ IsErr(ret, "StsOutOfRange", "negative dimension")
             /\ ret.info = <<IF call.rows < 0 THEN 0 ELSE 1>>
        ELSE IF call.rows * call.cols = call.len
             THEN /\ ret.ok
                  /\ ret.val.view.size = <<call.rows, call.cols>>
                  /\ ret.val.view.typ = call.T
                  /\ Len(ret.val.view.mem) = call.len
             ELSE IsErr(ret, "StsUnmatchedSizes", "size mismatch")

\* C5's case: a view is built over a slice of rows * cols elements, rows, cols > 1
C5_Witness ==
    /\ call.op = "new_rows_cols_with_data_mut"
    /\ call.rows = 2
    /\ call.cols = 3
    /\ call.len = 6
    /\ ret.ok
    /\ ret.val.view.size = <<2, 3>>

\* C6: from_exact_iter(s) yields a matrix with total = Len(s) whose at(i)
\* (requested type = item type) returns s[i] for every 0 <= i < Len(s): write
\* i and read i address the same element, distinct i distinct elements.
C6_FromExactIterReadsBack ==
    /\ call.op = "from_exact_iter" =>
          /\ ret.ok
          /\ mat.typ = call.T
          /\ total(mat) = Len(shadow)
          /\ \A i \in 1 .. Len(shadow) : mat.mem[RowMajorAddr(mat, i - 1)] = shadow[i]
    /\ (call.op = "at" /\ call.T = mat.typ /\ InRange(call.i0, Len(shadow))) =>
          /\ ret.ok
          /\ ret.val.val = shadow[call.i0 + 1]
          /\ ret.val.addr = RowMajorAddr(mat, call.i0)

\* C6's case: the last of three distinct items is read back
C6_Witness ==
    /\ call.op = "at"
    /\ shadow = <<2, 3, 1>>
    /\ call.i0 = 2
    /\ ret.ok
    /\ ret.val.val = 1

\* the rows of s all have the same length
SameLengths(s) == \A j, k \in 1 .. Len(s) : Len(s[j]) = Len(s[k])

\* C12 (as claimed): from_slice_2d(s) succeeds iff all rows of s have the same
\* length, and then returns a matrix of Len(s) rows that holds a copy of s
\* (no rows for the empty s); otherwise, an empty row included, it fails with
\* the unmatched-row-length error naming a row of s.
C12_FromSlice2d ==
    call.op = "from_slice_2d" =>
        LET s == call.s
        IN  IF SameLengths(s)
            THEN /\ ret.ok
                 /\ ret.val.mat.typ = call.T
                 /\ rows(ret.val.mat) = Len(s)
                 /\ \A r \in 1 .. Len(s) :
                       /\ Len(s[r]) = cols(ret.val.mat)
                       /\ \A c \in 1 .. Len(s[r]) :
                             ret.val.mat.mem[ptr_2d(ret.val.mat, r - 1, c - 1)] = s[r][c]
            ELSE /\ IsErr(ret, "StsUnmatchedSizes", "unmatched row length")
                 /\ ret.info[2] \in 0 .. (Len(s) - 1)

\* C13: from_bytes / from_bytes_mut over n bytes with elements of s bytes fail
\* with the bad-argument error when n mod s # 0, and otherwise build the
\* 1 x (n / s) view: the length check of that shape over n bytes never fails,
\* so no size-mismatch error comes out of from_bytes.
C13_FromBytes ==
    call.op \in {"from_bytes", "from_bytes_mut"} =>
        LET n == call.len
            s == size_of(call.T)
        IN  /\ match_length(<<1, n \div s>>, (n \div s) * s, s).ok
            /\ ~IsErr(ret, "StsUnmatchedSizes", "size mismatch")
            /\ IF n % s # 0
               THEN IsErr(ret, "StsBadArg", "unexpected number of bytes")
               ELSE /\ ret.ok
                    /\ ret.val.view.size = <<1, n \div s>>
                    /\ ret.val.view.typ = call.T

\* C13's case: seven bytes for elements of four bytes
C13_Witness ==
    /\ call.op = "from_bytes"
    /\ call.T = "CV_32F"
    /\ call.len = 7
    /\ IsErr(ret, "StsBadArg", "unexpected number of bytes")

----------------------------------------------------------------------------
(* Claims checked under SpecRoi *)

\* the (row, col) positions a rectangle covers
Cells(r) ==
    {<<i, j>> : i \in r.y .. (r.y + r.height - 1), j \in r.x .. (r.x + r.width - 1)}

Disjoint(r1, r2) == Cells(r1) \cap Cells(r2) = {}

\* the rectangle, empty or not, stays within the bounds of m
Inside(m, r) ==
    /\ 0 <= r.x /\ r.x + r.width <= cols(m)
    /\ 0 <= r.y /\ r.y + r.height <= rows(m)

\* the elements of the buffer a view reaches
ViewAddrs(v) ==
    {v.origin + i * v.step + j : i \in 0 .. (v.size[1] - 1), j \in 0 .. (v.size[2] - 1)}

\* the two views reach exactly the elements of their regions, and share none
ViewsApart(m, r1, r2, v) ==
    /\ ViewAddrs(v.out1) = {ptr_2d(m, ix[1], ix[2]) : ix \in Cells(r1)}
    /\ ViewAddrs(v.out2) = {ptr_2d(m, ix[1], ix[2]) : ix \in Cells(r2)}
    /\ ViewAddrs(v.out1) \cap ViewAddrs(v.out2) = {}

----------------------------------------------------------------------------
(* Claims checked under SpecIter *)

\* C11: the k-th next() of a MatIter / MatIterMut over a 2-D matrix of N
\* elements returns, for k <= N, the k-th element in row-major order with its
\* own (row, col) as Point { x: col, y: row }, and None for every k > N.
C11_IteratorYieldsEachElementOnce ==
    "kind" \in DOMAIN iter =>
        \A k \in 1 .. Len(shadow) :
            IF k <= total(mat)
            THEN LET row == (k - 1) \div cols(mat)
                     col == (k - 1) % cols(mat)
                 IN  /\ ~shadow[k].none
                     /\ shadow[k].y = row
                     /\ shadow[k].x = col
                     /\ shadow[k].addr = ptr_2d(mat, row, col)
                     /\ shadow[k].val = mat.mem[ptr_2d(mat, row, col)]
            ELSE shadow[k].none

\* C11's case: a MatIterMut over a 2 x 3 matrix with padded rows returned its
\* six pairs and then None twice
C11_Witness ==
    /\ "kind" \in DOMAIN iter
    /\ iter.kind = "MatIterMut"
    /\ mat.size = <<2, 3>>
    /\ ~is_continuous(mat)
    /\ Len(shadow) = 8
    /\ ~shadow[6].none
    /\ shadow[6].x = 2 /\ shadow[6].y = 1
    /\ shadow[7].none
    /\ shadow[8].none

----------------------------------------------------------------------------
(* Claims checked under SpecDebug *)

\* C14 (as claimed): the dump of the contents is rendered only when total is
\* below the threshold of 1000, the placeholder for every other total, and
\* rendering leaves the matrix unchanged.
C14_DumpBelowThreshold ==
    call.op = "fmt" =>
        /\ ret.ok
        /\ ret.val.data.dumped <=> total(mat) < 1000
        /\ mat = shadow

\* C14 (amended): the dump of the contents, all total elements, is rendered
\* when total <= 1000, the placeholder naming the threshold when total > 1000,
\* and rendering leaves the matrix unchanged.
C14_DumpUpToThreshold ==
    call.op = "fmt" =>
        /\ ret.ok
        /\ ret.val.total = total(mat)
        /\ ret.val.data.threshold = 1000
        /\ IF total(mat) <= 1000
           THEN /\ ret.val.data.dumped
                /\ Len(ret.val.data.elems) = total(mat)
           ELSE /\ ~ret.val.data.dumped
                /\ ret.val.data.elems = <<>>
        /\ mat = shadow

\* C14's case: a matrix of exactly 1000 elements is rendered with its contents
C14_Witness ==
    /\ call.op = "fmt"
    /\ total(mat) = 1000
    /\ ret.ok
    /\ ret.val.data.dumped
    /\ Len(ret.val.data.elems) = 1000

----------------------------------------------------------------------------
(* Claims checked under SpecFlat *)

====
